---- MODULE Spec2Model ----
(***************************************************************************)
(* Subsidy calculation engine (src/lib/calculator.ts) with its catalog     *)
(* loader (src/lib/dataLoader.ts), frequency normaliser (src/lib/utils.ts) *)
(* and medical subsidy calculation (lib/calculateMedicalSubsidy.ts).       *)
(*                                                                         *)
(* An optional field of a TypeScript object (minAge?, tiers?, ...) is a    *)
(* record field that is present or absent: Has(r, "f") is the test         *)
(* `r.f !== undefined`.  A function that can throw returns a record whose  *)
(* field threw says whether it threw.                                      *)
(***************************************************************************)
EXTENDS Integers, Sequences, FiniteSets, TLC

VARIABLES
    subsidyData,      \* the policy catalog: data key -> [policies: Seq(Subsidy)]
    medicalCostData,  \* the medical cost statistics: [ageMedicalCosts: Seq([age, annualCost])]
    prefecture,       \* argument of the last calculateSubsidies call ("" before any call)
    input,            \* the CalculationInput [householdIncome, children] of the last call
    result,           \* outcome of calculateSubsidies(prefecture, input)
    results,          \* outcome of calculateAllSubsidies(input)
    fixed,            \* outcome of the fixed-amount calculators called on one entry
    medical,          \* outcome of a direct calculateMedicalSubsidy(currentAge, prefecture) call
    annual,           \* outcome of a direct calculateAmountByFrequency(amount, frequency) call
    formInput,        \* SubsidyCalculatorForm: the `input` state [householdIncome, children]
    timers,           \* SubsidyCalculatorForm: the inputs captured by the pending 500 ms timers
    lastCall,         \* SubsidyCalculatorForm: the last onCalculate call and the form's input then
    isCalculating,    \* Home: the loading flag
    deferred,         \* Home: the inputs captured by the pending 100 ms callbacks
    displayed,        \* Home: the `results` state handed to ResultsList
    logged            \* Home: whether console.error has been called

\* The state of direct calls to the pure helpers.
pureVars == <<medical, annual>>

\* The state of the form component.
formVars == <<formInput, timers, lastCall>>

\* The state of the page component.
pageVars == <<isCalculating, deferred, displayed, logged>>

vars == <<subsidyData, medicalCostData, prefecture, input, result, results, fixed,
          pureVars, formVars, pageVars>>

Has(r, f) == f \in DOMAIN r

Max(a, b) == IF a >= b THEN a ELSE b

Min(a, b) == IF a <= b THEN a ELSE b

RECURSIVE SumSeq(_)
SumSeq(s) == IF s = <<>> THEN 0 ELSE Head(s) + SumSeq(Tail(s))

\* The elements of a sequence, as a set.
Range(s) == {s[i] : i \in DOMAIN s}

\* An object without fields.
NoFields == [x \in {} |-> 0]

-----------------------------------------------------------------------------
(* Program constants *)

\* amount: number | 'variable' -- the sentinel 'variable' of Subsidy.amount
variable == -1

CHILDCARE_ALLOWANCE_THIRD_CHILD_MONTHLY == 30000

\* Prefecture = '東京都' | '埼玉県' | '千葉県' | '神奈川県'
Tokyo == "Tokyo"
Saitama == "Saitama"
Chiba == "Chiba"
Kanagawa == "Kanagawa"

\* getAllPrefectures(): ['東京都', '埼玉県', '千葉県', '神奈川県']
getAllPrefectures == <<Tokyo, Saitama, Chiba, Kanagawa>>

-----------------------------------------------------------------------------
(* src/lib/utils.ts *)

\* Mutant: a one-time amount is spread over the months of a year.
calculateAmountByFrequency_OnceMonthly(amount, frequency) ==
    CASE frequency = "yearly" -> amount
      [] OTHER -> amount * 12

calculateAmountByFrequency(amount, frequency) ==
    CASE frequency = "once" -> amount
      [] frequency = "monthly" -> amount * 12
      [] frequency = "yearly" -> amount
      [] OTHER -> amount

-----------------------------------------------------------------------------
(* types/subsidy.ts *)

\* Mutant: the guard looks for the age bands instead of the amount.
isVariableAmountSubsidy_ByBands(subsidy) == Has(subsidy, "ageBasedAmounts")

isVariableAmountSubsidy(subsidy) == subsidy.amount = variable

-----------------------------------------------------------------------------
(* src/lib/dataLoader.ts *)

\* Mutant: the switch has no case for Kanagawa.
dataKey_NoKanagawa(pref) ==
    CASE pref = Tokyo -> "tokyo"
      [] pref = Saitama -> "saitama"
      [] pref = Chiba -> "chiba"
      [] OTHER -> ""

\* The switch of loadPrefectureData: the data key of a prefecture, "" in the
\* default case.
dataKey(pref) ==
    CASE pref = Tokyo -> "tokyo"
      [] pref = Saitama -> "saitama"
      [] pref = Chiba -> "chiba"
      [] pref = Kanagawa -> "kanagawa"
      [] OTHER -> ""

\* Mutant: an unknown prefecture silently loads an empty catalog.
loadPrefectureData_SilentEmpty(data, pref) ==
    IF dataKey(pref) = "" \/ ~Has(data, dataKey(pref))
    THEN [threw |-> FALSE, data |-> [policies |-> <<>>]]
    ELSE [threw |-> FALSE, data |-> data[dataKey(pref)]]

loadPrefectureData(data, pref) ==
    IF dataKey(pref) = ""
    THEN [threw |-> TRUE, error |-> "UnsupportedPrefecture"]
    ELSE IF ~Has(data, dataKey(pref))
    THEN [threw |-> TRUE, error |-> "DataNotFound"]
    ELSE [threw |-> FALSE, data |-> data[dataKey(pref)]]

-----------------------------------------------------------------------------
(* lib/calculateMedicalSubsidy.ts *)

getAssistanceAge(pref) == 18

\* Mutant: Chiba falls through to the default case.
getAssistanceRate_ChibaDefault(pref) ==
    CASE pref \in {Tokyo, Saitama} -> 100
      [] OTHER -> 0

\* The assistance rate in percent (1.0 -> 100, 0.0 -> 0).
getAssistanceRate(pref) ==
    CASE pref \in {Tokyo, Saitama, Chiba} -> 100
      [] pref = Kanagawa -> 0
      [] OTHER -> 0

\* Mutant: the lower self payment rate ends before age 5.
getSelfPaymentRate_Boundary(age) == IF age < 5 THEN 2 ELSE 3

\* The self payment rate in tenths (0.2 -> 2, 0.3 -> 3).
getSelfPaymentRate(age) == IF age <= 5 THEN 2 ELSE 3

\* data.find((item) => item.age === age): the first entry of that age, as a
\* sequence of zero or one entries.
getMedicalCostByAge(data, age) ==
    LET hits == SelectSeq(data, LAMBDA item : item.age = age)
    IN  IF hits = <<>> THEN <<>> ELSE <<Head(hits)>>

\* The sum of annualCost * selfPaymentRate * assistanceRate over the ages
\* from..to, in thousandths of a yen (tenths times percent).
RECURSIVE medicalSum(_, _, _, _)
medicalSum(costs, pref, from, to) ==
    IF from > to THEN 0
    ELSE LET medicalCost == getMedicalCostByAge(costs, from)
             term == IF medicalCost = <<>> THEN 0
                     ELSE medicalCost[1].annualCost * getSelfPaymentRate(from)
                          * getAssistanceRate(pref)
         IN  term + medicalSum(costs, pref, from + 1, to)

\* Math.round(x) for x = n / 1000, n >= 0: the nearest integer, halves up.
roundThousandths(n) == (n + 500) \div 1000

\* Mutant: no check of the lower end of the age range.
calculateMedicalSubsidy_NoLowerCheck(costData, currentAge, pref) ==
    IF currentAge > getAssistanceAge(pref) THEN 0
    ELSE roundThousandths(medicalSum(costData.ageMedicalCosts, pref, currentAge,
                                     getAssistanceAge(pref)))

calculateMedicalSubsidy(costData, currentAge, pref) ==
    IF currentAge < 0 \/ currentAge > 18 THEN 0
    ELSE IF currentAge > getAssistanceAge(pref) THEN 0
    ELSE roundThousandths(medicalSum(costData.ageMedicalCosts, pref, currentAge,
                                     getAssistanceAge(pref)))

-----------------------------------------------------------------------------
(* src/lib/calculator.ts: age arithmetic *)

\* Mutant: the whole span of the band, whatever the current age.
calculateYearsFromCurrentAge_FullSpan(currentAge, minAge, maxAge) ==
    maxAge - minAge + 1

\* Mutant: the years elapsed since the start age instead of the years left.
calculateYearsFromCurrentAge_Elapsed(currentAge, minAge, maxAge) ==
    IF currentAge > maxAge THEN 0
    ELSE LET startAge == Max(currentAge, minAge)
         IN  startAge - minAge + 1

\* Mutant: the upper age is not counted.
calculateYearsFromCurrentAge_Exclusive(currentAge, minAge, maxAge) ==
    IF currentAge > maxAge THEN 0
    ELSE LET startAge == Max(currentAge, minAge)
         IN  maxAge - startAge

calculateYearsFromCurrentAge(currentAge, minAge, maxAge) ==
    IF currentAge > maxAge THEN 0
    ELSE LET startAge == Max(currentAge, minAge)
         IN  maxAge - startAge + 1

calculateAgeRangeInfo(currentAge, minAge, maxAge) ==
    [fromAge |-> Max(currentAge, minAge),
     toAge |-> maxAge,
     years |-> calculateYearsFromCurrentAge(currentAge, minAge, maxAge)]

-----------------------------------------------------------------------------
(* src/lib/calculator.ts: filters *)

\* Mutant: only the first listed tier is looked at.
checkTieredIncomeLimit_FirstTier(householdIncome, incomeLimit) ==
    IF ~Has(incomeLimit, "tiers") \/ Len(incomeLimit.tiers) = 0 THEN FALSE
    ELSE householdIncome < incomeLimit.tiers[1].threshold

checkTieredIncomeLimit(householdIncome, incomeLimit) ==
    IF ~Has(incomeLimit, "tiers") \/ Len(incomeLimit.tiers) = 0 THEN FALSE
    ELSE \E i \in DOMAIN incomeLimit.tiers :
            householdIncome < incomeLimit.tiers[i].threshold

\* Mutant: the single threshold itself still qualifies.
passesIncomeLimit_Inclusive(subsidy, householdIncome) ==
    LET incomeLimit == subsidy.conditions.incomeLimit
    IN  IF incomeLimit.type = "none" THEN TRUE
        ELSE IF incomeLimit.type = "single" /\ Has(incomeLimit, "threshold")
                /\ incomeLimit.threshold # 0
        THEN householdIncome <= incomeLimit.threshold
        ELSE IF incomeLimit.type = "tiered"
        THEN checkTieredIncomeLimit(householdIncome, incomeLimit)
        ELSE FALSE

\* The callback of filterByIncomeLimit.
passesIncomeLimit(subsidy, householdIncome) ==
    LET incomeLimit == subsidy.conditions.incomeLimit
    IN  IF incomeLimit.type = "none" THEN TRUE
        ELSE IF incomeLimit.type = "single" /\ Has(incomeLimit, "threshold")
                /\ incomeLimit.threshold # 0
        THEN householdIncome < incomeLimit.threshold
        ELSE IF incomeLimit.type = "tiered"
        THEN checkTieredIncomeLimit(householdIncome, incomeLimit)
        ELSE FALSE

filterByIncomeLimit(subsidies, householdIncome) ==
    SelectSeq(subsidies, LAMBDA subsidy : passesIncomeLimit(subsidy, householdIncome))

\* Mutant: the child's current age must lie in the entry's age band.
matchesChildCondition_CurrentAge(child, condition) ==
    IF Has(condition, "birthOrder") /\ condition.birthOrder # "any"
       /\ condition.birthOrder # child.birthOrder
    THEN FALSE
    ELSE LET policyMinAge == IF Has(condition, "minAge") THEN condition.minAge ELSE 0
             policyMaxAge == IF Has(condition, "maxAge") THEN condition.maxAge ELSE 18
         IN  policyMinAge <= child.age /\ child.age <= policyMaxAge

matchesChildCondition(child, condition) ==
    IF Has(condition, "birthOrder") /\ condition.birthOrder # "any"
       /\ condition.birthOrder # child.birthOrder
    THEN FALSE
    ELSE LET childMinAge == 0
             childMaxAge == 18
             policyMinAge == IF Has(condition, "minAge") THEN condition.minAge ELSE 0
             policyMaxAge == IF Has(condition, "maxAge") THEN condition.maxAge ELSE 18
         IN  ~(childMaxAge < policyMinAge \/ childMinAge > policyMaxAge)

\* Mutant: a household without children keeps every entry.
filterByChildConditions_KeepWithoutChildren(subsidies, children) ==
    SelectSeq(subsidies, LAMBDA subsidy :
        \/ children = <<>>
        \/ \E i \in DOMAIN children :
               matchesChildCondition(children[i], subsidy.conditions.childCondition))

filterByChildConditions(subsidies, children) ==
    SelectSeq(subsidies, LAMBDA subsidy :
        \E i \in DOMAIN children :
            matchesChildCondition(children[i], subsidy.conditions.childCondition))

\* The birth-order-only filter the max/received calculators apply.
birthOrderEligible(subsidy, children) ==
    SelectSeq(children, LAMBDA child :
        LET cond == subsidy.conditions.childCondition
        IN  IF Has(cond, "birthOrder") /\ cond.birthOrder # "any"
            THEN cond.birthOrder = child.birthOrder
            ELSE TRUE)

\* The children of input that match the condition (filter mode).
eligibleChildrenOf(subsidy, children) ==
    SelectSeq(children, LAMBDA child :
        matchesChildCondition(child, subsidy.conditions.childCondition))

\* const { minAge = d, maxAge = e } = subsidy.conditions.childCondition
minAgeOr(subsidy, d) ==
    IF Has(subsidy.conditions.childCondition, "minAge")
    THEN subsidy.conditions.childCondition.minAge ELSE d

maxAgeOr(subsidy, e) ==
    IF Has(subsidy.conditions.childCondition, "maxAge")
    THEN subsidy.conditions.childCondition.maxAge ELSE e

-----------------------------------------------------------------------------
(* src/lib/calculator.ts: the remaining amount (current age to the upper age) *)

\* The inner loop over subsidy.ageBasedAmounts for one child.
bandsRemaining(subsidy, child) ==
    SumSeq([k \in DOMAIN subsidy.ageBasedAmounts |->
        LET ageRange == subsidy.ageBasedAmounts[k]
            years == calculateYearsFromCurrentAge(child.age, ageRange.minAge, ageRange.maxAge)
        IN  IF years > 0
            THEN calculateAmountByFrequency(ageRange.amount, ageRange.frequency) * years
            ELSE 0])

calculateVariableAmount(subsidy, children) ==
    SumSeq([i \in DOMAIN children |-> bandsRemaining(subsidy, children[i])])

\* Mutant: the third-child rate is not applied.
calculateChildcareAllowance_NoSurcharge(subsidy, children) ==
    SumSeq([i \in DOMAIN children |-> bandsRemaining(subsidy, children[i])])

calculateChildcareAllowance(subsidy, children) ==
    SumSeq([i \in DOMAIN children |->
        LET child == children[i]
        IN  IF child.birthOrder = "third_or_more"
            THEN LET years == calculateYearsFromCurrentAge(child.age, 0, 18)
                     annualAmount == CHILDCARE_ALLOWANCE_THIRD_CHILD_MONTHLY * 12
                 IN  annualAmount * years
            ELSE bandsRemaining(subsidy, child)])

\* { amount, years, ageRange } with ageRange of the first eligible child.
fixedResult(amount, years, eligibleChildren, minAge, maxAge) ==
    [threw |-> FALSE, amount |-> amount, years |-> years,
     ageRange |-> calculateAgeRangeInfo(eligibleChildren[1].age, minAge, maxAge)]

noEligibleResult == [threw |-> FALSE, amount |-> 0, years |-> 0]

variableGivenToFixed == [threw |-> TRUE, error |-> "VariableGivenToFixed"]

\* Math.max over the years of the children that contribute (0 when none does).
RECURSIVE MaxSeq(_)
MaxSeq(s) == IF s = <<>> THEN 0 ELSE Max(Head(s), MaxSeq(Tail(s)))

\* The body of calculateMedicalExpenseSubsidy once the eligible children and
\* the age band are known.
medicalExpenseOf(subsidy, eligibleChildren, minAge, maxAge, costData) ==
    IF Len(eligibleChildren) = 0 THEN noEligibleResult
    ELSE fixedResult(
             SumSeq([i \in DOMAIN eligibleChildren |->
                 calculateMedicalSubsidy(costData, eligibleChildren[i].age,
                                         subsidy.prefecture)]),
             calculateYearsFromCurrentAge(eligibleChildren[1].age, minAge, maxAge),
             eligibleChildren, minAge, maxAge)

calculateMedicalExpenseSubsidy(subsidy, inp, costData) ==
    medicalExpenseOf(subsidy, eligibleChildrenOf(subsidy, inp.children),
                     minAgeOr(subsidy, 0), maxAgeOr(subsidy, 18), costData)

\* Mutant: a one-time grant is multiplied by the years left.
yearsCounted_Prorated(child, minAge, maxAge, once) ==
    IF calculateYearsFromCurrentAge(child.age, minAge, maxAge) > 0
    THEN calculateYearsFromCurrentAge(child.age, minAge, maxAge)
    ELSE 0

\* Mutant: a one-time grant counts whether or not years are left.
yearsCounted_PastCounted(child, minAge, maxAge, once) ==
    IF once THEN 1
    ELSE IF calculateYearsFromCurrentAge(child.age, minAge, maxAge) > 0
    THEN calculateYearsFromCurrentAge(child.age, minAge, maxAge)
    ELSE 0

\* The years one child counts for in a fixed calculation: the years left, and
\* 1 for a one-time grant that is still ahead.
yearsCounted(child, minAge, maxAge, once) ==
    IF calculateYearsFromCurrentAge(child.age, minAge, maxAge) > 0
    THEN (IF once THEN 1
          ELSE calculateYearsFromCurrentAge(child.age, minAge, maxAge))
    ELSE 0

\* The result of a loop over the eligible children: totalAmount is the sum of
\* amountPerYear * years and yearsApplied the largest years.
loopResult(amountPerYear, yearsOf, eligibleChildren, minAge, maxAge) ==
    fixedResult(SumSeq([i \in DOMAIN yearsOf |-> amountPerYear * yearsOf[i]]),
                MaxSeq(yearsOf), eligibleChildren, minAge, maxAge)

\* The loop `for (const child of eligibleChildren)` of the fixed calculators.
loopOverChildren(amountPerYear, eligibleChildren, minAge, maxAge, once) ==
    IF Len(eligibleChildren) = 0 THEN noEligibleResult
    ELSE loopResult(amountPerYear,
                    [i \in DOMAIN eligibleChildren |->
                        yearsCounted(eligibleChildren[i], minAge, maxAge, once)],
                    eligibleChildren, minAge, maxAge)

calculateChildcareFeeSubsidy(subsidy, inp) ==
    IF subsidy.amount = variable THEN variableGivenToFixed
    ELSE loopOverChildren(calculateAmountByFrequency(subsidy.amount, subsidy.frequency),
                          eligibleChildrenOf(subsidy, inp.children),
                          minAgeOr(subsidy, 0), maxAgeOr(subsidy, 5), FALSE)

\* Mutant: the largest amount among the tiers whose threshold exceeds the income.
findTierAmount_Largest(tiers, householdIncome) ==
    MaxSeq([k \in DOMAIN tiers |->
               IF householdIncome < tiers[k].threshold THEN tiers[k].amount ELSE 0])

\* incomeLimit.tiers.find((t) => input.householdIncome < t.threshold)?.amount ?? 0
findTierAmount(tiers, householdIncome) ==
    LET hits == SelectSeq(tiers, LAMBDA t : householdIncome < t.threshold)
    IN  IF hits = <<>> THEN 0 ELSE Head(hits).amount

\* amountPerYear of calculateHighSchoolTuition: the amount of the first tier
\* whose threshold exceeds the income.
tuitionPerYear(subsidy, incomeLimit, householdIncome) ==
    IF incomeLimit.type = "tiered" /\ Has(incomeLimit, "tiers")
    THEN findTierAmount(incomeLimit.tiers, householdIncome)
    ELSE calculateAmountByFrequency(subsidy.amount, subsidy.frequency)

calculateHighSchoolTuition(subsidy, inp) ==
    IF subsidy.amount = variable THEN variableGivenToFixed
    ELSE loopOverChildren(tuitionPerYear(subsidy, subsidy.conditions.incomeLimit,
                                         inp.householdIncome),
                          eligibleChildrenOf(subsidy, inp.children),
                          minAgeOr(subsidy, 15), maxAgeOr(subsidy, 18), FALSE)

calculateFixedAmount(subsidy, inp, costData) ==
    IF subsidy.amount = variable THEN variableGivenToFixed
    ELSE IF subsidy.type = "medical_expense"
    THEN calculateMedicalExpenseSubsidy(subsidy, inp, costData)
    ELSE IF subsidy.type = "childcare_fee"
    THEN calculateChildcareFeeSubsidy(subsidy, inp)
    ELSE IF subsidy.type = "high_school_tuition"
    THEN calculateHighSchoolTuition(subsidy, inp)
    ELSE loopOverChildren(calculateAmountByFrequency(subsidy.amount, subsidy.frequency),
                          eligibleChildrenOf(subsidy, inp.children),
                          minAgeOr(subsidy, 0), maxAgeOr(subsidy, 18),
                          subsidy.frequency = "once")

-----------------------------------------------------------------------------
(* src/lib/calculator.ts: the full amount (minAge to maxAge, birth order only) *)

\* Mutant: the full amount of the medical subsidy starts at the current age.
calculateMaxMedicalExpenseSubsidy_CurrentAge(subsidy, children, costData) ==
    SumSeq([i \in DOMAIN birthOrderEligible(subsidy, children) |->
               calculateMedicalSubsidy(costData,
                                       birthOrderEligible(subsidy, children)[i].age,
                                       subsidy.prefecture)])

calculateMaxMedicalExpenseSubsidy(subsidy, children, costData) ==
    Len(birthOrderEligible(subsidy, children))
        * calculateMedicalSubsidy(costData, 0, subsidy.prefecture)

\* Mutant: the upper age is not counted in the years of the full amount.
maxOverChildren_Exclusive(amountPerYear, eligibleCount, minAge, maxAge, once) ==
    IF eligibleCount = 0 THEN 0
    ELSE IF once THEN amountPerYear * eligibleCount
    ELSE amountPerYear * (maxAge - minAge) * eligibleCount

\* annualAmount * years * eligibleChildren.length with years = maxAge - minAge + 1
\* (0 without eligible children); a one-time grant counts once per child.
maxOverChildren(amountPerYear, eligibleCount, minAge, maxAge, once) ==
    IF eligibleCount = 0 THEN 0
    ELSE IF once THEN amountPerYear * eligibleCount
    ELSE amountPerYear * (maxAge - minAge + 1) * eligibleCount

calculateMaxChildcareFeeSubsidy(subsidy, children) ==
    IF subsidy.amount = variable THEN 0
    ELSE maxOverChildren(calculateAmountByFrequency(subsidy.amount, subsidy.frequency),
                         Len(birthOrderEligible(subsidy, children)),
                         minAgeOr(subsidy, 0), maxAgeOr(subsidy, 5), FALSE)

\* Mutant: the last listed tier's amount.
firstTierAmount_LastTier(subsidy, incomeLimit) ==
    IF incomeLimit.type = "tiered" /\ Has(incomeLimit, "tiers")
       /\ Len(incomeLimit.tiers) > 0
    THEN incomeLimit.tiers[Len(incomeLimit.tiers)].amount
    ELSE calculateAmountByFrequency(subsidy.amount, subsidy.frequency)

\* The amount per year of the max and received high school calculators: the
\* first listed tier's amount when there are tiers.
firstTierAmount(subsidy, incomeLimit) ==
    IF incomeLimit.type = "tiered" /\ Has(incomeLimit, "tiers")
       /\ Len(incomeLimit.tiers) > 0
    THEN incomeLimit.tiers[1].amount
    ELSE calculateAmountByFrequency(subsidy.amount, subsidy.frequency)

calculateMaxHighSchoolTuition(subsidy, children) ==
    IF subsidy.amount = variable THEN 0
    ELSE maxOverChildren(firstTierAmount(subsidy, subsidy.conditions.incomeLimit),
                         Len(birthOrderEligible(subsidy, children)),
                         minAgeOr(subsidy, 15), maxAgeOr(subsidy, 18), FALSE)

\* The fixed branch of calculateMaxAmount (the else of isVariableAmountSubsidy).
calculateMaxFixed(subsidy, children, costData) ==
    IF subsidy.amount = variable THEN 0
    ELSE IF subsidy.type = "medical_expense"
    THEN calculateMaxMedicalExpenseSubsidy(subsidy, children, costData)
    ELSE IF subsidy.type = "childcare_fee"
    THEN calculateMaxChildcareFeeSubsidy(subsidy, children)
    ELSE IF subsidy.type = "high_school_tuition"
    THEN calculateMaxHighSchoolTuition(subsidy, children)
    ELSE maxOverChildren(calculateAmountByFrequency(subsidy.amount, subsidy.frequency),
                         Len(birthOrderEligible(subsidy, children)),
                         minAgeOr(subsidy, 0), maxAgeOr(subsidy, 18),
                         subsidy.frequency = "once")

calculateMaxAmount(subsidy, children, costData) ==
    IF isVariableAmountSubsidy(subsidy)
    THEN SumSeq([i \in DOMAIN children |->
            IF subsidy.type = "childcare_allowance"
               /\ children[i].birthOrder = "third_or_more"
            THEN (CHILDCARE_ALLOWANCE_THIRD_CHILD_MONTHLY * 12) * 19
            ELSE SumSeq([k \in DOMAIN subsidy.ageBasedAmounts |->
                    LET ageRange == subsidy.ageBasedAmounts[k]
                        years == ageRange.maxAge - ageRange.minAge + 1
                    IN  calculateAmountByFrequency(ageRange.amount, ageRange.frequency)
                        * years])])
    ELSE calculateMaxFixed(subsidy, children, costData)

-----------------------------------------------------------------------------
(* src/lib/calculator.ts: the received amount (minAge to current age - 1) *)

\* The continuous branch shared by the fixed and the childcare-fee received
\* calculators: the years one child has received.
receivedYears(child, minAge, maxAge) ==
    IF child.age = 0 THEN 0
    ELSE IF child.age > maxAge THEN maxAge - minAge + 1
    ELSE IF child.age > minAge THEN child.age - minAge
    ELSE 0

\* The medical subsidy one child has received: the subsidy from birth less the
\* subsidy from the current age on.
medicalReceived(child, fromBirth, costData, pref) ==
    IF child.age = 0 THEN 0
    ELSE fromBirth - calculateMedicalSubsidy(costData, child.age, pref)

\* The loop of calculateReceivedMedicalExpenseSubsidy over the eligible children.
medicalReceivedOf(eligibleChildren, fromBirth, costData, pref) ==
    SumSeq([i \in DOMAIN eligibleChildren |->
               medicalReceived(eligibleChildren[i], fromBirth, costData, pref)])

calculateReceivedMedicalExpenseSubsidy(subsidy, children, costData) ==
    medicalReceivedOf(birthOrderEligible(subsidy, children),
                      calculateMedicalSubsidy(costData, 0, subsidy.prefecture),
                      costData, subsidy.prefecture)

\* The loop of the continuous received calculators over the eligible children.
receivedOverChildren(annualAmount, eligibleChildren, minAge, maxAge) ==
    SumSeq([i \in DOMAIN eligibleChildren |->
               annualAmount * receivedYears(eligibleChildren[i], minAge, maxAge)])

calculateReceivedChildcareFeeSubsidy(subsidy, children) ==
    IF subsidy.amount = variable THEN 0
    ELSE receivedOverChildren(
             calculateAmountByFrequency(subsidy.amount, subsidy.frequency),
             birthOrderEligible(subsidy, children),
             minAgeOr(subsidy, 0), maxAgeOr(subsidy, 5))

\* The loop of calculateReceivedHighSchoolTuition over the eligible children.
tuitionReceivedOf(amountPerYear, eligibleChildren, minAge, maxAge) ==
    SumSeq([i \in DOMAIN eligibleChildren |->
               IF eligibleChildren[i].age = 0 \/ eligibleChildren[i].age <= minAge
               THEN 0
               ELSE IF eligibleChildren[i].age > maxAge
               THEN amountPerYear * (maxAge - minAge + 1)
               ELSE amountPerYear * (eligibleChildren[i].age - minAge)])

calculateReceivedHighSchoolTuition(subsidy, children) ==
    IF subsidy.amount = variable THEN 0
    ELSE tuitionReceivedOf(firstTierAmount(subsidy, subsidy.conditions.incomeLimit),
                           birthOrderEligible(subsidy, children),
                           minAgeOr(subsidy, 15), maxAgeOr(subsidy, 18))

\* The one-time branch of calculateReceivedAmount: the grant of every eligible
\* child that is past the upper age.
onceReceivedOf(annualAmount, eligibleChildren, maxAge) ==
    annualAmount * Len(SelectSeq(eligibleChildren, LAMBDA child : child.age > maxAge))

\* The fixed branch of calculateReceivedAmount.
calculateReceivedFixed(subsidy, children, costData) ==
    IF subsidy.amount = variable THEN 0
    ELSE IF subsidy.type = "medical_expense"
    THEN calculateReceivedMedicalExpenseSubsidy(subsidy, children, costData)
    ELSE IF subsidy.type = "childcare_fee"
    THEN calculateReceivedChildcareFeeSubsidy(subsidy, children)
    ELSE IF subsidy.type = "high_school_tuition"
    THEN calculateReceivedHighSchoolTuition(subsidy, children)
    ELSE IF subsidy.frequency = "once"
    THEN onceReceivedOf(calculateAmountByFrequency(subsidy.amount, subsidy.frequency),
                        birthOrderEligible(subsidy, children), maxAgeOr(subsidy, 18))
    ELSE receivedOverChildren(
             calculateAmountByFrequency(subsidy.amount, subsidy.frequency),
             birthOrderEligible(subsidy, children),
             minAgeOr(subsidy, 0), maxAgeOr(subsidy, 18))

\* Mutant: the received years of a band run to the current age, past the
\* band's end.
bandReceived_Uncapped(ageRange, child) ==
    IF child.age <= ageRange.minAge THEN 0
    ELSE calculateAmountByFrequency(ageRange.amount, ageRange.frequency)
         * (child.age - ageRange.minAge)

\* The received amount of one child under one age band.
bandReceived(ageRange, child) ==
    IF child.age <= ageRange.minAge THEN 0
    ELSE LET receivedStartAge == ageRange.minAge
             receivedEndAge == Min(child.age - 1, ageRange.maxAge)
         IN  IF receivedEndAge >= receivedStartAge
             THEN calculateAmountByFrequency(ageRange.amount, ageRange.frequency)
                  * (receivedEndAge - receivedStartAge + 1)
             ELSE 0

calculateReceivedAmount(subsidy, children, costData) ==
    IF isVariableAmountSubsidy(subsidy)
    THEN SumSeq([i \in DOMAIN children |->
            LET child == children[i]
            IN  IF child.age = 0 THEN 0
                ELSE IF subsidy.type = "childcare_allowance"
                        /\ child.birthOrder = "third_or_more"
                THEN (CHILDCARE_ALLOWANCE_THIRD_CHILD_MONTHLY * 12) * child.age
                ELSE SumSeq([k \in DOMAIN subsidy.ageBasedAmounts |->
                        bandReceived(subsidy.ageBasedAmounts[k], child)])])
    ELSE calculateReceivedFixed(subsidy, children, costData)

-----------------------------------------------------------------------------
(* src/lib/calculator.ts: dispatch, aggregation and ranking *)

\* Math.min / Math.max over the bands' ages.
RECURSIVE minOver(_)
minOver(s) == IF Len(s) = 1 THEN s[1] ELSE Min(Head(s), minOver(Tail(s)))

RECURSIVE maxOver(_)
maxOver(s) == IF Len(s) = 1 THEN s[1] ELSE Max(Head(s), maxOver(Tail(s)))

\* The years and age range of a variable-amount entry: from the first child's
\* age over the span of all the bands.
variableResult(totalAmount, bands, children) ==
    IF Len(children) > 0 /\ Len(bands) > 0
    THEN fixedResult(totalAmount,
                     calculateYearsFromCurrentAge(
                         children[1].age,
                         minOver([k \in DOMAIN bands |-> bands[k].minAge]),
                         maxOver([k \in DOMAIN bands |-> bands[k].maxAge])),
                     children,
                     minOver([k \in DOMAIN bands |-> bands[k].minAge]),
                     maxOver([k \in DOMAIN bands |-> bands[k].maxAge]))
    ELSE [threw |-> FALSE, amount |-> totalAmount, years |-> 0]

\* The variable branch of calculateSubsidyAmount.  A variable-amount entry
\* without ageBasedAmounts: reading .length of, or iterating, undefined raises
\* a TypeError as soon as there is a child.
calculateVariable(subsidy, inp) ==
    IF ~Has(subsidy, "ageBasedAmounts")
    THEN IF Len(inp.children) > 0
         THEN [threw |-> TRUE, error |-> "TypeError"]
         ELSE noEligibleResult
    ELSE variableResult(IF subsidy.type = "childcare_allowance"
                        THEN calculateChildcareAllowance(subsidy, inp.children)
                        ELSE calculateVariableAmount(subsidy, inp.children),
                        subsidy.ageBasedAmounts, inp.children)

\* The AppliedPolicy calculateSubsidyAmount returns, or the error of the
\* calculation.
appliedPolicy(subsidy, calc, maxAmount, receivedAmount) ==
    IF calc.threw THEN calc
    ELSE [threw |-> FALSE, policy |-> subsidy,
          calculatedAmount |-> calc.amount,
          yearsApplied |-> calc.years,
          maxAmount |-> maxAmount,
          receivedAmount |-> receivedAmount]
         @@ (IF Has(calc, "ageRange") THEN [ageRange |-> calc.ageRange] ELSE NoFields)

calculateSubsidyAmount(subsidy, inp, costData) ==
    appliedPolicy(subsidy,
                  IF isVariableAmountSubsidy(subsidy)
                  THEN calculateVariable(subsidy, inp)
                  ELSE calculateFixedAmount(subsidy, inp, costData),
                  calculateMaxAmount(subsidy, inp.children, costData),
                  calculateReceivedAmount(subsidy, inp.children, costData))

\* policy.maxAmount ?? policy.calculatedAmount
maxOrCalculated(policy) ==
    IF Has(policy, "maxAmount") THEN policy.maxAmount ELSE policy.calculatedAmount

\* Mutant: totalMaxAmount sums calculatedAmount.
calculationResult_MaxFromCalculated(pref, appliedPolicies) ==
    IF \E i \in DOMAIN appliedPolicies : appliedPolicies[i].threw
    THEN [status |-> "error",
          error |-> Head(SelectSeq(appliedPolicies, LAMBDA p : p.threw)).error]
    ELSE [status |-> "ok",
          prefecture |-> pref,
          appliedPolicies |-> appliedPolicies,
          totalAmount |-> SumSeq([i \in DOMAIN appliedPolicies |->
                             appliedPolicies[i].calculatedAmount]),
          totalMaxAmount |-> SumSeq([i \in DOMAIN appliedPolicies |->
                                appliedPolicies[i].calculatedAmount]),
          rank |-> 0]

\* The CalculationResult built from the applied policies, or the first error
\* a calculation raised.  calculatedAt (the wall clock) is left out.
calculationResult(pref, appliedPolicies) ==
    IF \E i \in DOMAIN appliedPolicies : appliedPolicies[i].threw
    THEN [status |-> "error",
          error |-> Head(SelectSeq(appliedPolicies, LAMBDA p : p.threw)).error]
    ELSE [status |-> "ok",
          prefecture |-> pref,
          appliedPolicies |-> appliedPolicies,
          totalAmount |-> SumSeq([i \in DOMAIN appliedPolicies |->
                             appliedPolicies[i].calculatedAmount]),
          totalMaxAmount |-> SumSeq([i \in DOMAIN appliedPolicies |->
                                maxOrCalculated(appliedPolicies[i])]),
          rank |-> 0]

\* applicableSubsidies.map((subsidy) => calculateSubsidyAmount(subsidy, input))
mapSubsidies(applicableSubsidies, inp, costData) ==
    [i \in DOMAIN applicableSubsidies |->
        calculateSubsidyAmount(applicableSubsidies[i], inp, costData)]

\* The steps of calculateSubsidies after the catalog is loaded.
calculateLoaded(loaded, costData, pref, inp) ==
    IF loaded.threw THEN [status |-> "error", error |-> loaded.error]
    ELSE calculationResult(pref,
             mapSubsidies(filterByChildConditions(
                              filterByIncomeLimit(loaded.data.policies,
                                                  inp.householdIncome),
                              inp.children),
                          inp, costData))

\* The result of calculateSubsidies, or the error it throws.
calculateSubsidies(data, costData, pref, inp) ==
    calculateLoaded(loadPrefectureData(data, pref), costData, pref, inp)

\* Mutant: the sort is ascending.
compareResults_Ascending(a, b) == a.totalAmount - b.totalAmount

\* The comparator of the sort: (a, b) => b.totalAmount - a.totalAmount.
compareResults(a, b) == b.totalAmount - a.totalAmount

\* Array.prototype.sort (stable): insert x after the last element that does
\* not compare greater than it.
RECURSIVE insertSorted(_, _)
insertSorted(sorted, x) ==
    IF sorted = <<>> THEN <<x>>
    ELSE IF compareResults(Head(sorted), x) > 0
    THEN <<x>> \o sorted
    ELSE <<Head(sorted)>> \o insertSorted(Tail(sorted), x)

RECURSIVE sortResults(_)
sortResults(s) ==
    IF s = <<>> THEN <<>>
    ELSE insertSorted(sortResults(SubSeq(s, 1, Len(s) - 1)), s[Len(s)])

\* index + 1
rankOf(index) == index + 1

\* results.map((result, index) => ({ ...result, rank: index + 1 }))
rankResults(sorted) ==
    [i \in DOMAIN sorted |-> [sorted[i] EXCEPT !.rank = rankOf(i - 1)]]

\* The sorted and ranked list, or the first error a prefecture raised.
sortAndRank(each) ==
    IF \E i \in DOMAIN each : each[i].status = "error"
    THEN [status |-> "error",
          error |-> Head(SelectSeq(each, LAMBDA r : r.status = "error")).error]
    ELSE [status |-> "ok", list |-> rankResults(sortResults(each))]

calculateAllSubsidies(data, costData, inp) ==
    sortAndRank([i \in DOMAIN getAllPrefectures |->
                    calculateSubsidies(data, costData, getAllPrefectures[i], inp)])

-----------------------------------------------------------------------------
(* The inputs: catalogs, medical cost statistics, households *)

\* Bounds of the model.
MaxChildAge == 19
MaxChildren == 2

\* Thresholds and amounts of the catalog entries (the examples of IncomeTier
\* and AgeBasedAmount in types/subsidy.ts).
LowThreshold == 5000000
HighThreshold == 5900000
LowTierAmount == 200000
HighTierAmount == 14000
FlatAmount == 5000

BirthOrders == {"first", "second", "third_or_more"}

Subsidy(type, amount, frequency, incomeLimit, childCondition) ==
    [id |-> "p", type |-> type, prefecture |-> Tokyo, amount |-> amount,
     frequency |-> frequency,
     conditions |-> [incomeLimit |-> incomeLimit, childCondition |-> childCondition]]

NoLimit == [type |-> "none"]

TiersAscending ==
    <<[threshold |-> LowThreshold, amount |-> LowTierAmount],
      [threshold |-> HighThreshold, amount |-> HighTierAmount]>>

TiersDescending ==
    <<[threshold |-> HighThreshold, amount |-> HighTierAmount],
      [threshold |-> LowThreshold, amount |-> LowTierAmount]>>

IncomeLimits ==
    {NoLimit,
     [type |-> "single", threshold |-> LowThreshold],
     [type |-> "single"],
     [type |-> "tiered", tiers |-> TiersAscending],
     [type |-> "tiered", tiers |-> TiersDescending],
     [type |-> "tiered", tiers |-> <<>>],
     [type |-> "tiered"]}

AgeConditions ==
    {NoFields,
     [minAge |-> 6, maxAge |-> 14],
     [maxAge |-> 5],
     [minAge |-> 15],
     [minAge |-> 19, maxAge |-> 22]}

BirthOrderConditions ==
    {NoFields, [birthOrder |-> "any"], [birthOrder |-> "first"],
     [birthOrder |-> "third_or_more"]}

ChildConditions == {a @@ b : a \in AgeConditions, b \in BirthOrderConditions}

AgeBands ==
    <<[minAge |-> 0, maxAge |-> 2, amount |-> 15000, frequency |-> "monthly"],
      [minAge |-> 3, maxAge |-> 18, amount |-> 10000, frequency |-> "monthly"]>>

\* The national child allowance, present in every catalog.
ChildAllowance ==
    Subsidy("childcare_allowance", variable, "monthly", NoLimit, NoFields)
    @@ [ageBasedAmounts |-> AgeBands]

FixedPolicies ==
    {Subsidy("other", FlatAmount, f, NoLimit, c) :
        f \in {"once", "monthly", "yearly"}, c \in ChildConditions}
    \cup {Subsidy(t, FlatAmount, "yearly", l, NoFields) :
        t \in {"other", "high_school_tuition"}, l \in IncomeLimits}
    \cup {Subsidy("high_school_tuition", FlatAmount, "yearly",
                  [type |-> "tiered", tiers |-> TiersAscending], c) :
        c \in {[birthOrder |-> "first"], [minAge |-> 16, maxAge |-> 17]}}
    \cup {Subsidy("medical_expense", 0, "yearly", NoLimit, c) :
        c \in {NoFields, [birthOrder |-> "second"], [maxAge |-> 14]}}
    \cup {Subsidy("childcare_fee", FlatAmount, "monthly", NoLimit, c) :
        c \in {NoFields, [minAge |-> 3, maxAge |-> 5], [birthOrder |-> "second"]}}

VariablePolicies ==
    {Subsidy(t, variable, "monthly", NoLimit, c) @@ [ageBasedAmounts |-> b] :
        t \in {"childcare_allowance", "other"},
        c \in {NoFields, [birthOrder |-> "third_or_more"]},
        b \in {AgeBands, <<>>}}
    \cup {Subsidy("other", variable, "yearly", NoLimit, NoFields)}

PolicyPool == FixedPolicies \cup VariablePolicies

\* A catalog: the entry under test p and the child allowance q.
Catalog(p, q) ==
    LET at(s, id, pref) == [s EXCEPT !.id = id, !.prefecture = pref]
    IN  [tokyo |-> [policies |-> <<at(p, "p", Tokyo), at(q, "q", Tokyo)>>],
         saitama |-> [policies |-> <<at(q, "q", Saitama)>>],
         chiba |-> [policies |-> <<at(p, "p", Chiba)>>],
         kanagawa |-> [policies |-> <<at(p, "p", Kanagawa)>>]]

Catalogs == {Catalog(p, ChildAllowance) : p \in PolicyPool}

\* Annual medical cost by age; the second table has no entry for age 10.
costOfAge(age) == 65001 + (18 - age) * 3333

FullCosts == [ageMedicalCosts |-> [i \in 1..19 |-> [age |-> i - 1, annualCost |-> costOfAge(i - 1)]]]

GapCosts ==
    [ageMedicalCosts |-> SelectSeq(FullCosts.ageMedicalCosts, LAMBDA e : e.age # 10)]

Children == [age : 0..MaxChildAge, birthOrder : BirthOrders]

Siblings == {[age |-> 3, birthOrder |-> "second"], [age |-> 16, birthOrder |-> "third_or_more"]}

RECURSIVE ChildrenLists(_)
ChildrenLists(n) ==
    IF n = 0 THEN {<<>>}
    ELSE IF n = 1 THEN {<<c>> : c \in Children}
    ELSE {Append(l, s) : l \in ChildrenLists(n - 1), s \in Siblings}

Incomes == {LowThreshold - 1, LowThreshold, HighThreshold - 1, HighThreshold}

Inputs ==
    [householdIncome : Incomes,
     children : UNION {ChildrenLists(n) : n \in 0..MaxChildren}]

PrefectureKeys == {Tokyo, Saitama, Chiba, Kanagawa, "Osaka"}

-----------------------------------------------------------------------------
(* The state machine *)

NoCall == [status |-> "none"]

\* No direct call of a pure helper has been made.
NoPureCall == medical = NoCall /\ annual = NoCall

\* useState({ householdIncome: 0, children: [] }); the first run of the effect
\* returns early, so that no timer is pending.
FormMounted ==
    /\ formInput = [householdIncome |-> 0, children |-> <<>>]
    /\ timers = <<>>
    /\ lastCall = NoCall

\* useState<CalculationResult[]>([]) and useState(false).
PageMounted ==
    /\ isCalculating = FALSE
    /\ deferred = <<>>
    /\ displayed = <<>>
    /\ logged = FALSE

Init ==
    /\ subsidyData \in Catalogs
    /\ medicalCostData \in
         IF subsidyData.chiba.policies[1].type = "medical_expense"
         THEN {FullCosts, GapCosts} ELSE {FullCosts}
    /\ input \in Inputs
    /\ prefecture = ""
    /\ result = NoCall
    /\ results = NoCall
    /\ fixed = NoCall
    /\ NoPureCall
    /\ FormMounted
    /\ PageMounted

\* calculateSubsidies(pref, input)
CalculateSubsidies(pref) ==
    /\ result = NoCall /\ results = NoCall /\ fixed = NoCall
    /\ prefecture' = pref
    /\ result' = calculateSubsidies(subsidyData, medicalCostData, pref, input)
    /\ UNCHANGED <<subsidyData, medicalCostData, input, results, fixed,
                 pureVars, formVars, pageVars>>

\* calculateAllSubsidies(input)
CalculateAllSubsidies ==
    /\ result = NoCall /\ results = NoCall /\ fixed = NoCall
    /\ results' = calculateAllSubsidies(subsidyData, medicalCostData, input)
    /\ UNCHANGED <<subsidyData, medicalCostData, input, prefecture, result, fixed,
                 pureVars, formVars, pageVars>>

Next ==
    \/ \E pref \in PrefectureKeys : CalculateSubsidies(pref)
    \/ CalculateAllSubsidies

Spec == Init /\ [][Next]_vars

\* A function that returns a number, in the shape of one that can throw.
returned(n) == [threw |-> FALSE, amount |-> n]

\* The fixed-amount calculators called on a catalog entry as the else branches
\* of calculateSubsidyAmount, calculateMaxAmount and calculateReceivedAmount
\* call them, whatever the entry's amount is.
CalculateFixed(key, i) ==
    /\ result = NoCall /\ results = NoCall /\ fixed = NoCall
    /\ LET subsidy == subsidyData[key].policies[i]
       IN  fixed' =
             [policy |-> subsidy,
              amount |-> calculateFixedAmount(subsidy, input, medicalCostData),
              childcareFee |-> calculateChildcareFeeSubsidy(subsidy, input),
              highSchool |-> calculateHighSchoolTuition(subsidy, input),
              max |-> returned(calculateMaxFixed(subsidy, input.children, medicalCostData)),
              maxChildcareFee |->
                  returned(calculateMaxChildcareFeeSubsidy(subsidy, input.children)),
              maxHighSchool |->
                  returned(calculateMaxHighSchoolTuition(subsidy, input.children)),
              received |->
                  returned(calculateReceivedFixed(subsidy, input.children, medicalCostData)),
              receivedChildcareFee |->
                  returned(calculateReceivedChildcareFeeSubsidy(subsidy, input.children)),
              receivedHighSchool |->
                  returned(calculateReceivedHighSchoolTuition(subsidy, input.children))]
    /\ UNCHANGED <<subsidyData, medicalCostData, input, prefecture, result, results,
                 pureVars, formVars, pageVars>>

NextFixed ==
    \E key \in DOMAIN subsidyData :
        \E i \in DOMAIN subsidyData[key].policies : CalculateFixed(key, i)

SpecFixed == Init /\ [][NextFixed]_vars

-----------------------------------------------------------------------------
(* The pure helpers called directly *)

\* How far below 0 and above 18 the ages handed to calculateMedicalSubsidy go.
AgeMargin == 2

ProbeAges == (0 - AgeMargin)..(18 + AgeMargin)

Frequencies == {"once", "monthly", "yearly"}

Amounts ==
    {0, FlatAmount, HighTierAmount, LowTierAmount,
     CHILDCARE_ALLOWANCE_THIRD_CHILD_MONTHLY}

InitPure ==
    /\ subsidyData = Catalog(ChildAllowance, ChildAllowance)
    /\ medicalCostData \in {FullCosts, GapCosts}
    /\ input = [householdIncome |-> 0, children |-> <<>>]
    /\ prefecture = ""
    /\ result = NoCall
    /\ results = NoCall
    /\ fixed = NoCall
    /\ NoPureCall
    /\ FormMounted
    /\ PageMounted

\* calculateMedicalSubsidy(currentAge, pref)
CallMedicalSubsidy(currentAge, pref) ==
    /\ medical' = [status |-> "ok", currentAge |-> currentAge, prefecture |-> pref,
                   amount |-> calculateMedicalSubsidy(medicalCostData, currentAge, pref)]
    /\ UNCHANGED <<subsidyData, medicalCostData, prefecture, input, result, results,
                   fixed, annual, formVars, pageVars>>

\* calculateAmountByFrequency(amount, frequency)
CallAmountByFrequency(amount, frequency) ==
    /\ annual' = [status |-> "ok", amount |-> amount, frequency |-> frequency,
                  value |-> calculateAmountByFrequency(amount, frequency)]
    /\ UNCHANGED <<subsidyData, medicalCostData, prefecture, input, result, results,
                   fixed, medical, formVars, pageVars>>

NextPure ==
    \/ \E currentAge \in ProbeAges : \E pref \in PrefectureKeys :
           CallMedicalSubsidy(currentAge, pref)
    \/ \E amount \in Amounts : \E frequency \in Frequencies :
           CallAmountByFrequency(amount, frequency)

SpecPure == InitPure /\ [][NextPure]_vars

-----------------------------------------------------------------------------
(* components/forms: SubsidyCalculatorForm, IncomeInput, ChildrenInput *)

\* Bounds of the form: the children the editor holds at most.
MaxFormChildren == 3

\* IncomeInput.handleChange: the field's value in units of 10000 yen -> yen;
\* an empty field is 0.
ManYen == 10000

handleChange(manYen) == manYen * ManYen

\* The values typed into the income field (in units of 10000 yen) and into an
\* age field.
TypedIncomes == {0, LowThreshold \div ManYen, HighThreshold \div ManYen}

TypedAges == {0, 16}

\* The birth order of the child at a position of the list (from 0).
birthOrderAt(i) ==
    IF i = 0 THEN "first" ELSE IF i = 1 THEN "second" ELSE "third_or_more"

\* ChildrenInput.addChild: [...childInfoList, { age: 0, birthOrder }]
addChild(childInfoList) ==
    Append(childInfoList,
           [age |-> 0, birthOrder |-> birthOrderAt(Len(childInfoList))])

\* ChildrenInput.updateChild: updated[index] = { ...updated[index], age }
\* (index from 0).
updateChild(childInfoList, index, age) ==
    [childInfoList EXCEPT ![index + 1] = [@ EXCEPT !.age = age]]

\* Mutant: the filtered list keeps the birth orders it had.
removeChild_NoReassign(childInfoList, index) ==
    [i \in 1..(Len(childInfoList) - 1) |->
        IF i - 1 < index THEN childInfoList[i] ELSE childInfoList[i + 1]]

\* ChildrenInput.removeChild: the list without the entry at index, the birth
\* orders assigned again by position.
removeChild(childInfoList, index) ==
    LET updated == [i \in 1..(Len(childInfoList) - 1) |->
                       IF i - 1 < index THEN childInfoList[i]
                       ELSE childInfoList[i + 1]]
    IN  [i \in DOMAIN updated |->
            [updated[i] EXCEPT !.birthOrder = birthOrderAt(i - 1)]]

\* Mutant: the effect returns no cleanup.
clearTimeout_Never(pending) == pending

\* The cleanup of the previous run of the effect: clearTimeout(timer) removes
\* the timer that run scheduled, the latest one, when it is still pending.
clearTimeout(pending) ==
    IF pending = <<>> THEN <<>> ELSE SubSeq(pending, 1, Len(pending) - 1)

\* The body of the effect for the input it closes over: nothing for an income
\* of 0, else a timer that will call onCalculate(input).
setTimeout(pending, captured) ==
    IF captured.householdIncome = 0 THEN pending ELSE Append(pending, captured)

\* setInput(next) and the re-render it causes: the cleanup of the previous
\* effect, then the effect of the new input.
setInput(next) ==
    /\ formInput' = next
    /\ timers' = setTimeout(clearTimeout(timers), next)
    /\ UNCHANGED lastCall

\* IncomeInput onChange: setInput(prev => ({ ...prev, householdIncome: value }))
EditIncome(manYen) ==
    /\ setInput([formInput EXCEPT !.householdIncome = handleChange(manYen)])
    /\ UNCHANGED <<subsidyData, medicalCostData, prefecture, input, result, results,
                   fixed, pureVars, pageVars>>

\* The + button: setInput(prev => ({ ...prev, children })) with addChild's list.
AddChild ==
    /\ Len(formInput.children) < MaxFormChildren
    /\ setInput([formInput EXCEPT !.children = addChild(formInput.children)])
    /\ UNCHANGED <<subsidyData, medicalCostData, prefecture, input, result, results,
                   fixed, pureVars, pageVars>>

\* An age field of the list edited.
UpdateChild(index, age) ==
    /\ index < Len(formInput.children)
    /\ setInput([formInput EXCEPT !.children = updateChild(formInput.children, index, age)])
    /\ UNCHANGED <<subsidyData, medicalCostData, prefecture, input, result, results,
                   fixed, pureVars, pageVars>>

\* A delete button of the list.
RemoveChild(index) ==
    /\ index < Len(formInput.children)
    /\ setInput([formInput EXCEPT !.children = removeChild(formInput.children, index)])
    /\ UNCHANGED <<subsidyData, medicalCostData, prefecture, input, result, results,
                   fixed, pureVars, pageVars>>

\* A pending timer fires: onCalculate(input) with the input the effect closed
\* over.  The call is recorded with the form's input at that moment.
TimerFires ==
    /\ timers # <<>>
    /\ lastCall' = [status |-> "ok", input |-> Head(timers), current |-> formInput]
    /\ timers' = Tail(timers)
    /\ UNCHANGED <<subsidyData, medicalCostData, prefecture, input, result, results,
                   fixed, pureVars, formInput, pageVars>>

InitForm ==
    /\ subsidyData = Catalog(ChildAllowance, ChildAllowance)
    /\ medicalCostData = FullCosts
    /\ input = [householdIncome |-> 0, children |-> <<>>]
    /\ prefecture = ""
    /\ result = NoCall
    /\ results = NoCall
    /\ fixed = NoCall
    /\ NoPureCall
    /\ FormMounted
    /\ PageMounted

NextForm ==
    \/ \E manYen \in TypedIncomes : EditIncome(manYen)
    \/ AddChild
    \/ \E index \in 0..(MaxFormChildren - 1) : \E age \in TypedAges :
           UpdateChild(index, age)
    \/ \E index \in 0..(MaxFormChildren - 1) : RemoveChild(index)
    \/ TimerFires

SpecForm == InitForm /\ [][NextForm]_vars

-----------------------------------------------------------------------------
(* app/page.tsx: Home *)

\* Bound of the page: the 100 ms callbacks that may be pending at once.
MaxPending == 2

\* The catalogs the page runs on: entries that calculate for every household,
\* and an entry of variable amount without ageBasedAmounts, on which the
\* calculation throws for a household with children.
PageCatalogs ==
    {Catalog(p, ChildAllowance) :
        p \in {Subsidy("other", FlatAmount, "yearly", NoLimit, NoFields),
               Subsidy("other", variable, "yearly", NoLimit, NoFields)}}

\* The inputs the form hands to onCalculate.
PageInputs ==
    [householdIncome : {handleChange(LowThreshold \div ManYen),
                        handleChange(HighThreshold \div ManYen)},
     children : {<<>>, addChild(<<>>), updateChild(addChild(<<>>), 0, 16)}]

\* Mutant: setIsCalculating(false) at the end of the try block, without finally.
tryCalculate_NoFinally(calculated, shown, flag, wasLogged) ==
    IF calculated.status = "ok"
    THEN [results |-> calculated.list, isCalculating |-> FALSE, logged |-> wasLogged]
    ELSE [results |-> shown, isCalculating |-> flag, logged |-> TRUE]

\* The try / catch / finally of the deferred callback, given the outcome of
\* calculateAllSubsidies(input): setResults on return, console.error on a
\* throw, setIsCalculating(false) in both cases.
tryCalculate(calculated, shown, flag, wasLogged) ==
    IF calculated.status = "ok"
    THEN [results |-> calculated.list, isCalculating |-> FALSE, logged |-> wasLogged]
    ELSE [results |-> shown, isCalculating |-> FALSE, logged |-> TRUE]

\* The state setters applied after the callback.
setPageState(next) ==
    /\ displayed' = next.results
    /\ isCalculating' = next.isCalculating
    /\ logged' = next.logged

\* handleCalculate(input): setIsCalculating(true) and setTimeout(..., 100).
HandleCalculate(inp) ==
    /\ Len(deferred) < MaxPending
    /\ isCalculating' = TRUE
    /\ deferred' = Append(deferred, inp)
    /\ UNCHANGED <<subsidyData, medicalCostData, prefecture, input, result, results,
                   fixed, pureVars, formVars, displayed, logged>>

\* The callback of the oldest pending setTimeout runs.
DeferredStep ==
    /\ deferred # <<>>
    /\ setPageState(tryCalculate(
           calculateAllSubsidies(subsidyData, medicalCostData, Head(deferred)),
           displayed, isCalculating, logged))
    /\ deferred' = Tail(deferred)
    /\ UNCHANGED <<subsidyData, medicalCostData, prefecture, input, result, results,
                   fixed, pureVars, formVars>>

InitPage ==
    /\ subsidyData \in PageCatalogs
    /\ medicalCostData = FullCosts
    /\ input = [householdIncome |-> 0, children |-> <<>>]
    /\ prefecture = ""
    /\ result = NoCall
    /\ results = NoCall
    /\ fixed = NoCall
    /\ NoPureCall
    /\ FormMounted
    /\ PageMounted

NextPage ==
    \/ \E inp \in PageInputs : HandleCalculate(inp)
    \/ DeferredStep

\* The oldest pending callback leaves the queue: in NextPage, the steps of
\* DeferredStep and no others, and possible whenever DeferredStep is.
CallbackLeaves == deferred # <<>> /\ deferred' = Tail(deferred)

\* A timer of the browser that is due fires: the deferred callback is not
\* postponed forever.
SpecPage == InitPage /\ [][NextPage]_vars /\ WF_deferred(CallbackLeaves)

-----------------------------------------------------------------------------
(* Properties *)

SpecialTypes == {"medical_expense", "childcare_fee", "high_school_tuition"}

\* A one-time grant: a generic fixed entry paid once.
OneTimeGrant(policy) ==
    /\ policy.amount # variable
    /\ policy.type \notin SpecialTypes
    /\ policy.frequency = "once"

\* The entries of the catalog that calculateSubsidies(prefecture, ...) loads.
LoadedPolicies == subsidyData[dataKey(prefecture)].policies

\* The ids of the applied policies of a result, in order.
AppliedIds(r) == [i \in DOMAIN r.appliedPolicies |-> r.appliedPolicies[i].policy.id]

AgesWithin(children, lo, hi) == \A i \in DOMAIN children : children[i].age \in lo..hi

\* C1: conservation -- for every applied policy that is not a one-time grant
\* and children aged 1 to 18, maxAmount = calculatedAmount + receivedAmount.
C1_Conservation ==
    (result.status = "ok" /\ AgesWithin(input.children, 1, 18)) =>
        \A i \in DOMAIN result.appliedPolicies :
            LET ap == result.appliedPolicies[i]
            IN  ~OneTimeGrant(ap.policy) =>
                    ap.maxAmount = ap.calculatedAmount + ap.receivedAmount

\* C2: identity at birth -- when every child is aged 0, every applied policy
\* has receivedAmount = 0 and maxAmount = calculatedAmount, and the totals agree.
C2_IdentityAtBirth ==
    (result.status = "ok" /\ AgesWithin(input.children, 0, 0)) =>
        /\ \A i \in DOMAIN result.appliedPolicies :
               LET ap == result.appliedPolicies[i]
               IN  ap.receivedAmount = 0 /\ ap.maxAmount = ap.calculatedAmount
        /\ result.totalMaxAmount = result.totalAmount

\* The same call for the single child one year older.
OneYearLater ==
    calculateSubsidies(subsidyData, medicalCostData, prefecture,
                       [input EXCEPT !.children[1].age = @ + 1])

\* C3: monotonicity -- with a single child aged a in 0..18, totalAmount at
\* age a + 1 is at most totalAmount at age a.
C3_Monotonic ==
    (result.status = "ok" /\ Len(input.children) = 1
     /\ AgesWithin(input.children, 0, 18)) =>
        /\ OneYearLater.status = "ok"
        /\ OneYearLater.totalAmount <= result.totalAmount

C3_Witness ==
    /\ result.status = "ok" /\ Len(input.children) = 1
    /\ AgesWithin(input.children, 0, 18)
    /\ OneYearLater.totalAmount < result.totalAmount
    /\ OneYearLater.totalAmount > 0

\* Every variable-amount entry of the catalog carries its age bands.
WellFormedCatalog ==
    \A k \in DOMAIN subsidyData : \A i \in DOMAIN subsidyData[k].policies :
        LET s == subsidyData[k].policies[i]
        IN  s.amount = variable => Has(s, "ageBasedAmounts")

\* C4: ranking validity -- calculateAllSubsidies returns one result per known
\* prefecture (4), the result at position i has rank i + 1 (positions from 0),
\* and totalAmount is non-increasing along the list.
C4_Ranking ==
    /\ (results.status = "ok" =>
           /\ Len(results.list) = 4
           /\ \A pref \in Range(getAllPrefectures) :
                  Cardinality({i \in DOMAIN results.list :
                                 results.list[i].prefecture = pref}) = 1
           /\ \A i \in DOMAIN results.list : results.list[i].rank = i
           /\ \A i \in 1..(Len(results.list) - 1) :
                  results.list[i].totalAmount >= results.list[i + 1].totalAmount)
    /\ (results # NoCall /\ WellFormedCatalog => results.status = "ok")

C4_Witness ==
    /\ results.status = "ok"
    /\ results.list[2].prefecture = Chiba
    /\ results.list[4].prefecture = Saitama
    /\ results.list[1].totalAmount > results.list[2].totalAmount
    /\ results.list[3].totalAmount > results.list[4].totalAmount

\* The age band a fixed-amount calculator uses: the entry's minAge and maxAge
\* with the defaults of its type.
BandMin(policy) == minAgeOr(policy, IF policy.type = "high_school_tuition" THEN 15 ELSE 0)

BandMax(policy) == maxAgeOr(policy, IF policy.type = "childcare_fee" THEN 5 ELSE 18)

\* C5: calculateYearsFromCurrentAge(age, min, max) with min <= max is 0 when
\* age > max, max - min + 1 when age <= min and max - age + 1 otherwise; read
\* off the ageRange of the applied fixed-amount policies of a one-child input.
C5_Years ==
    (result.status = "ok" /\ Len(input.children) = 1) =>
        \A i \in DOMAIN result.appliedPolicies :
            LET ap == result.appliedPolicies[i]
                age == input.children[1].age
                min == BandMin(ap.policy)
                max == BandMax(ap.policy)
            IN  (ap.policy.amount # variable /\ Has(ap, "ageRange") /\ min <= max) =>
                    ap.ageRange.years =
                        IF age > max THEN 0
                        ELSE IF age <= min THEN max - min + 1
                        ELSE max - age + 1

C5_Witness ==
    /\ result.status = "ok" /\ Len(input.children) = 1
    /\ input.children[1].age = 5
    /\ \E i \in DOMAIN result.appliedPolicies :
           LET ap == result.appliedPolicies[i]
           IN  /\ ap.policy.amount # variable
               /\ BandMin(ap.policy) = 6 /\ BandMax(ap.policy) = 14
               /\ ap.ageRange.years = 9

\* Some child passes the child filter of the entry.
SomeChildMatches(policy) ==
    \E i \in DOMAIN input.children :
        matchesChildCondition(input.children[i], policy.conditions.childCondition)

IsApplied(policy) ==
    \E i \in DOMAIN result.appliedPolicies : result.appliedPolicies[i].policy = policy

\* C6: a single-threshold income limit is strict -- an entry with threshold T
\* is applied for an income below T (when a child matches) and never for an
\* income of T or more.
C6_SingleStrict ==
    result.status = "ok" =>
        \A i \in DOMAIN LoadedPolicies :
            LET policy == LoadedPolicies[i]
                limit == policy.conditions.incomeLimit
            IN  (limit.type = "single" /\ Has(limit, "threshold")) =>
                    (IsApplied(policy) <=>
                        (input.householdIncome < limit.threshold
                         /\ SomeChildMatches(policy)))

C6_Witness ==
    /\ result.status = "ok"
    /\ \E i \in DOMAIN result.appliedPolicies :
           LET limit == result.appliedPolicies[i].policy.conditions.incomeLimit
           IN  /\ limit.type = "single"
               /\ input.householdIncome = limit.threshold - 1

\* C7: a tiered income limit passes iff some tier's threshold exceeds the
\* income, whatever the tier order; with an empty or absent tier list the
\* entry is never applied and no error is raised.
C7_Tiered ==
    (result # NoCall /\ prefecture \in Range(getAllPrefectures)) =>
        \A i \in DOMAIN LoadedPolicies :
            LET policy == LoadedPolicies[i]
                limit == policy.conditions.incomeLimit
                tiers == IF Has(limit, "tiers") THEN limit.tiers ELSE <<>>
            IN  limit.type = "tiered" =>
                    /\ result.status = "ok"
                    /\ IsApplied(policy) <=>
                           (/\ \E k \in DOMAIN tiers :
                                   tiers[k].threshold > input.householdIncome
                            /\ SomeChildMatches(policy))

C7_Witness ==
    /\ result.status = "ok"
    /\ input.householdIncome = LowThreshold
    /\ \E i \in DOMAIN result.appliedPolicies :
           result.appliedPolicies[i].policy.conditions.incomeLimit
               = [type |-> "tiered", tiers |-> TiersAscending]

\* The same call with every child aged 0.
AtBirth ==
    calculateSubsidies(subsidyData, medicalCostData, prefecture,
        [input EXCEPT !.children = [i \in DOMAIN input.children |->
                                       [input.children[i] EXCEPT !.age = 0]]])

BirthOrderMatches(child, condition) ==
    \/ ~Has(condition, "birthOrder")
    \/ condition.birthOrder = "any"
    \/ condition.birthOrder = child.birthOrder

BandOverlapsChildhood(condition) ==
    LET lo == IF Has(condition, "minAge") THEN condition.minAge ELSE 0
        hi == IF Has(condition, "maxAge") THEN condition.maxAge ELSE 18
    IN  hi >= 0 /\ lo <= 18

\* C8: filter mode ignores the current age -- an entry is applied iff it is
\* income-eligible, some child has a matching birth order and its age band
\* overlaps 0..18; so the applied policies are those of the same input with
\* every child aged 0 (hence equal for inputs that differ only in ages).
C8_FilterIgnoresAge ==
    (result # NoCall /\ prefecture \in Range(getAllPrefectures)) =>
        /\ result.status = AtBirth.status
        /\ result.status = "ok" =>
               /\ AppliedIds(result) = AppliedIds(AtBirth)
               /\ \A i \in DOMAIN LoadedPolicies :
                      LET policy == LoadedPolicies[i]
                          condition == policy.conditions.childCondition
                      IN  IsApplied(policy) <=>
                              /\ passesIncomeLimit(policy, input.householdIncome)
                              /\ BandOverlapsChildhood(condition)
                              /\ \E c \in DOMAIN input.children :
                                     BirthOrderMatches(input.children[c], condition)

C8_Witness ==
    /\ result.status = "ok" /\ Len(input.children) = 1
    /\ input.children[1].age = 16
    /\ \E i \in DOMAIN result.appliedPolicies :
           LET condition == result.appliedPolicies[i].policy.conditions.childCondition
           IN  /\ Has(condition, "maxAge") /\ condition.maxAge = 14
               /\ Has(condition, "birthOrder")

\* C9: an unknown prefecture is fatal -- calculateSubsidies raises the error
\* of loadPrefectureData and returns no result.
C9_UnknownPrefecture ==
    (result # NoCall /\ prefecture \notin Range(getAllPrefectures)) =>
        /\ result.status = "error"
        /\ result.error = "UnsupportedPrefecture"
        /\ ~Has(result, "appliedPolicies")

C9_Witness ==
    /\ prefecture = "Osaka"
    /\ result.status = "error"
    /\ Len(input.children) > 0

\* C10: a fixed-amount calculation given an entry whose amount is 'variable'
\* signals an error instead of producing an amount -- calculateFixedAmount and
\* the max and received calculations for the same entry.
C10_FailsLoudly ==
    (fixed # NoCall /\ fixed.policy.amount = variable) =>
        /\ fixed.amount.threw
        /\ fixed.max.threw
        /\ fixed.received.threw

\* The maxAmount of the applied policies of a result, in order.
AppliedMax(r) == [i \in DOMAIN r.appliedPolicies |-> r.appliedPolicies[i].maxAmount]

\* Two results with the same totalMaxAmount and the same maxAmount per applied
\* policy.
SameMax(r, other) ==
    /\ other.status = "ok"
    /\ other.totalMaxAmount = r.totalMaxAmount
    /\ AppliedMax(other) = AppliedMax(r)

\* C11: totalMaxAmount is independent of age -- a call returns the same
\* totalMaxAmount, and the same maxAmount for each applied policy, as the call
\* with the same income and birth orders and every child aged 0 (so any two
\* inputs that differ only in ages agree).
C11_MaxIgnoresAge ==
    result.status = "ok" => SameMax(result, AtBirth)

C11_Witness ==
    /\ result.status = "ok" /\ Len(input.children) = 2
    /\ input.children[1].age = 7
    /\ Len(result.appliedPolicies) = 2
    /\ \E i \in DOMAIN result.appliedPolicies :
           result.appliedPolicies[i].policy.type = "medical_expense"
    /\ result.totalAmount < result.totalMaxAmount
    /\ AtBirth.totalAmount = result.totalMaxAmount

\* Some applied policy is a high-school tuition entry with the given tiers.
TieredTuitionApplied(tiers) ==
    \E i \in DOMAIN result.appliedPolicies :
        /\ result.appliedPolicies[i].policy.type = "high_school_tuition"
        /\ result.appliedPolicies[i].policy.conditions.incomeLimit
               = [type |-> "tiered", tiers |-> tiers]

\* C12: the result of calculateSubsidies has totalMaxAmount >= totalAmount,
\* for every prefecture, income and list of children, high-school tuition
\* entries with a tiered income limit included.
C12_MaxAtLeastTotal ==
    result.status = "ok" => result.totalMaxAmount >= result.totalAmount

C12_Witness ==
    /\ result.status = "ok"
    /\ TieredTuitionApplied(TiersAscending)
    /\ input.householdIncome = LowThreshold
    /\ Len(input.children) = 1 /\ input.children[1].age = 15
    /\ result.totalAmount > 0
    /\ result.totalMaxAmount > result.totalAmount

\* The children of the input whose birth order the entry accepts.
BirthOrderEligible(policy) ==
    {c \in DOMAIN input.children :
        BirthOrderMatches(input.children[c], policy.conditions.childCondition)}

\* C13: one-time grants are binary -- for an applied generic fixed entry paid
\* once, every birth-order-eligible child is either pending (age <= maxAge:
\* the amount is once in calculatedAmount, not in receivedAmount) or received
\* (age > maxAge: once in receivedAmount, not in calculatedAmount); never
\* prorated by years, never in both or in neither.
C13_OnceBinary ==
    result.status = "ok" =>
        \A i \in DOMAIN result.appliedPolicies :
            LET ap == result.appliedPolicies[i]
                pending == {c \in BirthOrderEligible(ap.policy) :
                               input.children[c].age <= BandMax(ap.policy)}
                received == {c \in BirthOrderEligible(ap.policy) :
                                input.children[c].age > BandMax(ap.policy)}
            IN  OneTimeGrant(ap.policy) =>
                    /\ ap.calculatedAmount = ap.policy.amount * Cardinality(pending)
                    /\ ap.receivedAmount = ap.policy.amount * Cardinality(received)

C13_Witness ==
    /\ result.status = "ok" /\ Len(input.children) = 2
    /\ input.children[1].age = 10 /\ input.children[2].age = 16
    /\ \E i \in DOMAIN result.appliedPolicies :
           LET ap == result.appliedPolicies[i]
           IN  /\ OneTimeGrant(ap.policy)
               /\ BandMin(ap.policy) = 6 /\ BandMax(ap.policy) = 14
               /\ ap.calculatedAmount = FlatAmount
               /\ ap.receivedAmount = FlatAmount

\* yearsRemaining(age, min, max) for min <= max.
YearsRemaining(age, min, max) ==
    IF age > max THEN 0 ELSE IF age <= min THEN max - min + 1 ELSE max - age + 1

\* C14 as stated: a one-time grant contributes the flat amount once per
\* birth-order-eligible child regardless of the child's remaining years, also
\* when yearsRemaining is 0.
C14_OncePerEligibleChild ==
    result.status = "ok" =>
        \A i \in DOMAIN result.appliedPolicies :
            LET ap == result.appliedPolicies[i]
            IN  OneTimeGrant(ap.policy) =>
                    ap.calculatedAmount =
                        ap.policy.amount * Cardinality(BirthOrderEligible(ap.policy))

\* C14 (amended): a one-time grant contributes the flat amount once per
\* birth-order-eligible child that has years remaining, whatever their number,
\* and nothing for a child whose yearsRemaining is 0; yearsApplied is 1 when
\* some child contributes and 0 otherwise.
C14_OncePerPendingChild ==
    result.status = "ok" =>
        \A i \in DOMAIN result.appliedPolicies :
            LET ap == result.appliedPolicies[i]
                contributing ==
                    {c \in BirthOrderEligible(ap.policy) :
                        YearsRemaining(input.children[c].age, BandMin(ap.policy),
                                       BandMax(ap.policy)) > 0}
            IN  OneTimeGrant(ap.policy) =>
                    /\ ap.calculatedAmount = ap.policy.amount * Cardinality(contributing)
                    /\ ap.yearsApplied = IF contributing = {} THEN 0 ELSE 1

C14_Witness ==
    /\ result.status = "ok" /\ Len(input.children) = 2
    /\ input.children[1].age = 0 /\ input.children[2].age = 16
    /\ \E i \in DOMAIN result.appliedPolicies :
           LET ap == result.appliedPolicies[i]
           IN  /\ OneTimeGrant(ap.policy)
               /\ BandMin(ap.policy) = 6 /\ BandMax(ap.policy) = 14
               /\ Cardinality(BirthOrderEligible(ap.policy)) = 2
               /\ ap.calculatedAmount = FlatAmount
               /\ ap.yearsApplied = 1

\* An applied high-school tuition entry with a tiered income limit that lists
\* its tiers.
TieredTuition(policy) ==
    /\ policy.type = "high_school_tuition"
    /\ policy.amount # variable
    /\ policy.conditions.incomeLimit.type = "tiered"
    /\ Has(policy.conditions.incomeLimit, "tiers")
    /\ Len(policy.conditions.incomeLimit.tiers) > 0

\* The position of the first tier, in list order, whose threshold exceeds the
\* income (0 when there is none).
FirstTierAbove(tiers, income) ==
    IF \E k \in DOMAIN tiers : tiers[k].threshold > income
    THEN CHOOSE k \in DOMAIN tiers :
             /\ tiers[k].threshold > income
             /\ \A j \in 1..(k - 1) : tiers[j].threshold <= income
    ELSE 0

\* C15: for an applied high-school tuition entry with tiers, calculatedAmount
\* is, summed over the eligible children, the amount of the first tier in
\* list order whose threshold exceeds the income times yearsRemaining(age,
\* minAge, maxAge) with defaults 15 and 18.
C15_TuitionFirstTier ==
    result.status = "ok" =>
        \A i \in DOMAIN result.appliedPolicies :
            LET ap == result.appliedPolicies[i]
                tiers == ap.policy.conditions.incomeLimit.tiers
                first == FirstTierAbove(tiers, input.householdIncome)
            IN  TieredTuition(ap.policy) =>
                    /\ first # 0
                    /\ ap.calculatedAmount =
                           SumSeq([c \in DOMAIN input.children |->
                               IF c \in BirthOrderEligible(ap.policy)
                               THEN tiers[first].amount
                                    * YearsRemaining(input.children[c].age,
                                                     BandMin(ap.policy),
                                                     BandMax(ap.policy))
                               ELSE 0])

C15_Witness ==
    /\ result.status = "ok"
    /\ TieredTuitionApplied(TiersDescending)
    /\ input.householdIncome < LowThreshold
    /\ Len(input.children) = 1 /\ input.children[1].age = 16
    /\ result.appliedPolicies[1].calculatedAmount = HighTierAmount * 3

\* C16: for an applied high-school tuition entry with a non-empty tier list,
\* maxAmount = tiers[0].amount * (maxAge - minAge + 1) * the number of
\* birth-order-eligible children, for every income.
C16_TuitionMaxFirstListed ==
    result.status = "ok" =>
        \A i \in DOMAIN result.appliedPolicies :
            LET ap == result.appliedPolicies[i]
            IN  TieredTuition(ap.policy) =>
                    ap.maxAmount =
                        ap.policy.conditions.incomeLimit.tiers[1].amount
                        * (BandMax(ap.policy) - BandMin(ap.policy) + 1)
                        * Cardinality(BirthOrderEligible(ap.policy))

C16_Witness ==
    /\ result.status = "ok"
    /\ TieredTuitionApplied(TiersAscending)
    /\ input.householdIncome = HighThreshold - 1
    /\ Len(input.children) = 2
    /\ result.appliedPolicies[1].policy.type = "high_school_tuition"
    /\ result.appliedPolicies[1].maxAmount = LowTierAmount * 4 * 2

\* The amount per year of an age band.
BandAnnual(band) == IF band.frequency = "monthly" THEN band.amount * 12 ELSE band.amount

\* C17: for an applied childcare_allowance entry, a third_or_more child aged a
\* contributes 30000 * 12 * yearsRemaining(a, 0, 18) to calculatedAmount,
\* whatever the age bands; a child of another birth order contributes the sum
\* over the bands of annualAmount(band) * yearsRemaining(a, band.minAge,
\* band.maxAge).
C17_ThirdChildSurcharge ==
    result.status = "ok" =>
        \A i \in DOMAIN result.appliedPolicies :
            LET ap == result.appliedPolicies[i]
                bands == ap.policy.ageBasedAmounts
            IN  (ap.policy.type = "childcare_allowance" /\ ap.policy.amount = variable) =>
                    ap.calculatedAmount =
                        SumSeq([c \in DOMAIN input.children |->
                            IF input.children[c].birthOrder = "third_or_more"
                            THEN 30000 * 12 * YearsRemaining(input.children[c].age, 0, 18)
                            ELSE SumSeq([k \in DOMAIN bands |->
                                     BandAnnual(bands[k])
                                     * YearsRemaining(input.children[c].age,
                                                      bands[k].minAge, bands[k].maxAge)])])

C17_Witness ==
    /\ result.status = "ok" /\ prefecture = Saitama
    /\ input.children = <<[age |-> 3, birthOrder |-> "third_or_more"]>>
    /\ result.appliedPolicies[1].policy.type = "childcare_allowance"
    /\ result.appliedPolicies[1].calculatedAmount = 360000 * 16

\* The entries of the loaded catalog that pass the income filter and the
\* child filter, in catalog order.
PassedBothFilters ==
    SelectSeq(LoadedPolicies, LAMBDA policy :
        passesIncomeLimit(policy, input.householdIncome) /\ SomeChildMatches(policy))

\* C18: aggregation -- totalAmount is the sum of calculatedAmount and
\* totalMaxAmount the sum of maxAmount (calculatedAmount where maxAmount is
\* unset) over appliedPolicies, and appliedPolicies holds exactly the entries
\* that passed both filters.
C18_Aggregation ==
    result.status = "ok" =>
        /\ result.totalAmount =
               SumSeq([i \in DOMAIN result.appliedPolicies |->
                          result.appliedPolicies[i].calculatedAmount])
        /\ result.totalMaxAmount =
               SumSeq([i \in DOMAIN result.appliedPolicies |->
                          IF Has(result.appliedPolicies[i], "maxAmount")
                          THEN result.appliedPolicies[i].maxAmount
                          ELSE result.appliedPolicies[i].calculatedAmount])
        /\ [i \in DOMAIN result.appliedPolicies |-> result.appliedPolicies[i].policy]
               = PassedBothFilters

C18_Witness ==
    /\ result.status = "ok" /\ prefecture = Tokyo
    /\ Len(result.appliedPolicies) = 2
    /\ result.appliedPolicies[1].calculatedAmount > 0
    /\ result.appliedPolicies[2].calculatedAmount > 0
    /\ result.totalMaxAmount > result.totalAmount

CostEntries(a) == {e \in Range(medicalCostData.ageMedicalCosts) : e.age = a}

\* annualCost(a) * selfPayRate(a) * assistanceRate(pref) in 1/100 yen: the
\* self pay rate in percent, 20 up to age 5 and 30 from age 6, the assistance
\* rate 1 or 0; 0 without a cost entry.
MedicalTerm(a, pref) ==
    IF CostEntries(a) = {} THEN 0
    ELSE (CHOOSE e \in CostEntries(a) : TRUE).annualCost
         * (IF a <= 5 THEN 20 ELSE 30)
         * (IF pref \in {Tokyo, Saitama, Chiba} THEN 1 ELSE 0)

\* The sum of the terms of the ages from age to 18, rounded to the nearest
\* integer.
MedicalExpected(age, pref) ==
    (SumSeq([k \in 1..19 |-> IF k - 1 >= age THEN MedicalTerm(k - 1, pref) ELSE 0])
     + 50) \div 100

\* C20: calculateMedicalSubsidy(age, prefecture) is the rounded sum over the
\* ages a from the current age to 18 that have a cost entry of annualCost(a) *
\* selfPayRate(a) * assistanceRate(prefecture), selfPayRate being 20% for
\* a <= 5 and 30% for a >= 6; an age without an entry adds 0 and raises no
\* error.  Read off the applied medical_expense entries, which add
\* calculateMedicalSubsidy over the eligible children.
C20_MedicalSubsidy ==
    (result # NoCall /\ prefecture \in Range(getAllPrefectures)
     /\ LoadedPolicies[1].type = "medical_expense") =>
        /\ result.status = "ok"
        /\ \A i \in DOMAIN result.appliedPolicies :
               LET ap == result.appliedPolicies[i]
               IN  ap.policy.type = "medical_expense" =>
                       ap.calculatedAmount =
                           SumSeq([c \in DOMAIN input.children |->
                               IF c \in BirthOrderEligible(ap.policy)
                               THEN MedicalExpected(input.children[c].age,
                                                    ap.policy.prefecture)
                               ELSE 0])

C20_Witness ==
    /\ result.status = "ok" /\ prefecture = Chiba
    /\ medicalCostData = GapCosts
    /\ input.children = <<[age |-> 4, birthOrder |-> "first"]>>
    /\ Len(result.appliedPolicies) = 1
    /\ result.appliedPolicies[1].policy.type = "medical_expense"
    /\ result.appliedPolicies[1].calculatedAmount
           = MedicalExpected(4, Chiba)
    /\ MedicalExpected(4, Chiba) > 0
    /\ MedicalTerm(10, Chiba) = 0


-----------------------------------------------------------------------------
(* Properties of the pure helpers *)

KnownPrefectures == {Tokyo, Saitama, Chiba, Kanagawa}

\* C21: calculateMedicalSubsidy returns 0 for every age below 0 and every age
\* above 18, whatever the prefecture, and for the ages 0..18 it does not
\* increase with the age: the value at any later age is at most the value
\* returned.
C21_MedicalRange ==
    medical # NoCall =>
        /\ (medical.currentAge < 0 \/ medical.currentAge > 18) => medical.amount = 0
        /\ medical.currentAge \in 0..18 =>
               \A later \in (medical.currentAge + 1)..18 :
                   calculateMedicalSubsidy(medicalCostData, later, medical.prefecture)
                       <= medical.amount

\* An age below 0 in a prefecture that pays from age 0 on.
C21_Witness ==
    /\ medical # NoCall
    /\ medical.currentAge < 0
    /\ medical.prefecture = Tokyo
    /\ medical.amount = 0
    /\ MedicalExpected(0, Tokyo) > 0

\* C22: at every age the medical value of Saitama and of Chiba equals that of
\* Tokyo, the full self payment (assistance rate 100%), and the value of
\* Kanagawa is 0.
C22_PrefectureRates ==
    medical # NoCall =>
        /\ medical.prefecture \in {Saitama, Chiba} =>
               /\ medical.amount =
                      calculateMedicalSubsidy(medicalCostData, medical.currentAge, Tokyo)
               /\ medical.currentAge \in 0..18 =>
                      medical.amount = MedicalExpected(medical.currentAge, Tokyo)
        /\ medical.prefecture = Kanagawa => medical.amount = 0

C22_Witness ==
    /\ medical # NoCall
    /\ medical.prefecture = Chiba
    /\ medical.currentAge = 0
    /\ medical.amount > 0

\* C23: calculateAmountByFrequency returns amount * 12 for 'monthly' and the
\* amount unchanged for 'yearly' and for 'once', for every amount, 0 included.
C23_AmountByFrequency ==
    annual # NoCall =>
        annual.value = IF annual.frequency = "monthly" THEN annual.amount * 12
                       ELSE annual.amount

C23_Witness ==
    /\ annual # NoCall
    /\ annual.frequency = "monthly"
    /\ annual.amount = FlatAmount
    /\ annual.value = 12 * FlatAmount


-----------------------------------------------------------------------------
(* Properties of the entry points *)

\* The error of the 'variable' branch of calculateFixedAmount,
\* calculateChildcareFeeSubsidy and calculateHighSchoolTuition.
InvariantViolation == variableGivenToFixed.error

\* C27: no call of calculateSubsidies or calculateAllSubsidies ends in the
\* error of the 'variable' branch of the fixed-amount calculators:
\* calculateSubsidyAmount hands every entry whose amount is 'variable' to the
\* variable calculators, so the applied entries of a result that have a
\* variable amount carry an amount, and a failed call failed otherwise.
C27_NoInvariantViolation ==
    /\ result.status = "error" => result.error # InvariantViolation
    /\ results.status = "error" => results.error # InvariantViolation
    /\ result.status = "ok" =>
           \A i \in DOMAIN result.appliedPolicies :
               result.appliedPolicies[i].policy.amount = variable =>
                   result.appliedPolicies[i].calculatedAmount >= 0

\* A variable entry went through the variable calculators and was paid.
C27_Witness ==
    /\ result.status = "ok"
    /\ \E i \in DOMAIN result.appliedPolicies :
           /\ result.appliedPolicies[i].policy.id = "p"
           /\ result.appliedPolicies[i].policy.amount = variable
           /\ result.appliedPolicies[i].policy.type = "other"
           /\ result.appliedPolicies[i].calculatedAmount > 0

\* The errors loadPrefectureData raises.
LoadErrors == {"UnsupportedPrefecture", "DataNotFound"}

\* C28: every prefecture of getAllPrefectures is accepted by
\* loadPrefectureData, so calculateAllSubsidies never fails to load a
\* prefecture and the prefectures of its result are a permutation of
\* getAllPrefectures; a result of calculateSubsidies has rank 0, and the ranks
\* 1..N are those of the list calculateAllSubsidies returns after its sort.
C28_TotalOverPrefectures ==
    /\ \A i \in DOMAIN getAllPrefectures :
           ~loadPrefectureData(subsidyData, getAllPrefectures[i]).threw
    /\ results.status = "error" => results.error \notin LoadErrors
    /\ (result.status = "error" /\ prefecture \in Range(getAllPrefectures)) =>
           result.error \notin LoadErrors
    /\ result.status = "ok" => result.rank = 0
    /\ results.status = "ok" =>
           /\ Len(results.list) = Len(getAllPrefectures)
           /\ Range(getAllPrefectures) =
                  {results.list[i].prefecture : i \in DOMAIN results.list}
           /\ {results.list[i].rank : i \in DOMAIN results.list}
                  = 1..Len(getAllPrefectures)

\* A list of the four prefectures in which the sort moved Chiba ahead of
\* Saitama.
C28_Witness ==
    /\ results.status = "ok"
    /\ results.list[2].prefecture = Chiba
    /\ results.list[2].rank = 2
    /\ results.list[3].prefecture = Kanagawa
    /\ results.list[4].prefecture = Saitama
    /\ results.list[4].rank = 4
    /\ results.list[4].totalAmount > 0

\* C29: the received amount is bounded -- with the amounts of the catalog
\* non-negative and minAge <= maxAge in every condition and band, and the
\* children aged 0 to 19, every applied policy has
\* 0 <= receivedAmount <= maxAmount.
C29_ReceivedBounded ==
    (result.status = "ok" /\ \A i \in DOMAIN input.children :
                                 input.children[i].age \in 0..19) =>
        \A i \in DOMAIN result.appliedPolicies :
            /\ 0 <= result.appliedPolicies[i].receivedAmount
            /\ result.appliedPolicies[i].receivedAmount
                   <= result.appliedPolicies[i].maxAmount

\* A child past every band of a variable entry has received all of it.
C29_Witness ==
    /\ result.status = "ok"
    /\ Len(input.children) = 1
    /\ input.children[1].age = 19
    /\ \E i \in DOMAIN result.appliedPolicies :
           /\ result.appliedPolicies[i].policy.id = "p"
           /\ result.appliedPolicies[i].policy.amount = variable
           /\ result.appliedPolicies[i].policy.type = "other"
           /\ result.appliedPolicies[i].receivedAmount > 0
           /\ result.appliedPolicies[i].receivedAmount
                  = result.appliedPolicies[i].maxAmount

\* C30: an empty household is a valid zero result -- for an input without
\* children, whatever the income, calculateSubsidies of each of the four
\* prefectures returns without error a result with no applied policy and
\* totalAmount = totalMaxAmount = 0, and calculateAllSubsidies returns the four
\* prefectures with the ranks 1..4.
C30_EmptyHousehold ==
    input.children = <<>> =>
        /\ (result # NoCall /\ prefecture \in Range(getAllPrefectures)) =>
               /\ result.status = "ok"
               /\ result.prefecture = prefecture
               /\ result.appliedPolicies = <<>>
               /\ result.totalAmount = 0
               /\ result.totalMaxAmount = 0
        /\ results # NoCall =>
               /\ results.status = "ok"
               /\ [i \in DOMAIN results.list |-> results.list[i].prefecture]
                      = getAllPrefectures
               /\ \A i \in DOMAIN results.list :
                      /\ results.list[i].rank = i
                      /\ results.list[i].totalAmount = 0
                      /\ results.list[i].appliedPolicies = <<>>

\* An empty household asks for a catalog whose entries would fail or pay for
\* any child: the list still comes back, all zero.
C30_Witness ==
    /\ input.children = <<>>
    /\ ~WellFormedCatalog
    /\ results.status = "ok"
    /\ Len(results.list) = 4
    /\ results.list[4].rank = 4
    /\ results.list[4].prefecture = Kanagawa


-----------------------------------------------------------------------------
(* Properties of the form *)

\* C24: the debounced form -- every edit cancels the timer the previous edit
\* scheduled, so that at most one timer is pending and it holds the form's
\* current input; onCalculate is called with the input the form has at that
\* moment and only for an income other than 0; an edit that sets the income to
\* 0 leaves no calculation pending.
C24_Debounce ==
    /\ Len(timers) <= 1
    /\ \A i \in DOMAIN timers :
           timers[i] = formInput /\ timers[i].householdIncome # 0
    /\ formInput.householdIncome = 0 => timers = <<>>
    /\ lastCall # NoCall =>
           /\ lastCall.input = lastCall.current
           /\ lastCall.input.householdIncome # 0

\* A calculation was made, and edits after it cancelled a pending one by
\* setting the income back to 0.
C24_Witness ==
    /\ lastCall # NoCall
    /\ lastCall.input.householdIncome = HighThreshold
    /\ Len(lastCall.input.children) = 1
    /\ formInput.householdIncome = 0
    /\ Len(formInput.children) = 2
    /\ timers = <<>>

\* The children of the form have the birth orders of their positions.
BirthOrdersByPosition(children) ==
    \A i \in DOMAIN children :
        children[i].birthOrder =
            (CASE i = 1 -> "first" [] i = 2 -> "second" [] OTHER -> "third_or_more")

\* A step that edits the list without changing its length changes the age of
\* one child and nothing else.
OnlyOneAgeChanges(before, after) ==
    (Len(after) = Len(before) /\ after # before) =>
        \E index \in DOMAIN before :
            /\ after[index].age # before[index].age
            /\ after[index].birthOrder = before[index].birthOrder
            /\ \A other \in DOMAIN before \ {index} : after[other] = before[other]

\* C25: from the empty list, after any sequence of addChild, updateChild and
\* removeChild, the child at index 0 is 'first', the child at index 1 is
\* 'second' and every child at index 2 or more is 'third_or_more'; an
\* updateChild changes only the age of the addressed child.
C25_BirthOrder ==
    /\ [] BirthOrdersByPosition(formInput.children)
    /\ [][OnlyOneAgeChanges(formInput.children, formInput'.children)]_vars

\* The first and the third child are 16 and the second is newborn: three adds
\* and two updates at least have acted.
C25_Witness ==
    /\ Len(formInput.children) = 3
    /\ formInput.children[1].age = 16
    /\ formInput.children[2].age = 0
    /\ formInput.children[3].age = 16
    /\ formInput.children[3].birthOrder = "third_or_more"


-----------------------------------------------------------------------------
(* Properties of the page *)

\* A step in which handleCalculate was called: one more callback is pending.
CallbackScheduled == Len(deferred') > Len(deferred)

\* A step in which a deferred callback ran.
CallbackRan == Len(deferred') < Len(deferred)

\* The calculation of the callback that is about to run throws.
CalculationThrows ==
    calculateAllSubsidies(subsidyData, medicalCostData, Head(deferred)).status = "error"

\* C26: the loading flag of the page -- every handleCalculate sets
\* isCalculating to true, and the deferred step sets it back to false, whether
\* calculateAllSubsidies returns or throws, so that a flag that is set is
\* eventually cleared; when the calculation throws, the results displayed
\* before stay as they were, and when it returns they are its list.
C26_LoadingFlag ==
    /\ [][CallbackScheduled => isCalculating']_vars
    /\ [][CallbackRan =>
            /\ ~isCalculating'
            /\ IF CalculationThrows THEN displayed' = displayed /\ logged'
               ELSE Len(displayed') = Len(getAllPrefectures)]_vars
    /\ [](isCalculating => deferred # <<>>)
    /\ isCalculating ~> ~isCalculating

\* A calculation threw after an earlier one had returned: the flag is back to
\* false and the earlier results are still displayed.
C26_Witness ==
    /\ logged
    /\ ~isCalculating
    /\ deferred = <<>>
    /\ Len(displayed) = Len(getAllPrefectures)

====
